---- MODULE Spec2Model ----
(***************************************************************************)
(* The annotation engine of the document editor (DocumentEditor.jsx): the  *)
(* span registry (tabs / customTabs), the anchor rebasing done by          *)
(* handleTextChange, span creation by handleCommandSubmit, edit acceptance *)
(* by handleApplyEdit; the Edit Applier of the action-item page            *)
(* (handleAcceptEdit); and the command grammar of handleCommandSubmit.     *)
(*                                                                         *)
(* Text is a sequence of one-character strings.  " " is the whitespace     *)
(* character.  Offsets are zero-based as in the code; sequences are        *)
(* one-based, so the character at offset i is s[i+1].                      *)
(***************************************************************************)
EXTENDS Integers, Sequences, FiniteSets, TLC

\* ------------------------------------------------------------------ bounds
\* Longest document text (characters) the editor model lets the user build.
MaxDoc == 3
\* Largest anchor end (position + length) a user edit may leave in the
\* registry: anchors that drift past the document are followed this far.
MaxAnchor == 4

\* ------------------------------------------------------- text primitives
\* An absent string (null / undefined): a token no text contains.
Null == <<"null">>

Min(a, b) == IF a <= b THEN a ELSE b
Max(a, b) == IF a >= b THEN a ELSE b

\* s.substring(0, n) for 0 <= n, clamped to the length of s.
Take(s, n) == SubSeq(s, 1, Min(Max(n, 0), Len(s)))
\* s.substring(n), clamped.
Drop(s, n) == SubSeq(s, Min(Max(n, 0), Len(s)) + 1, Len(s))
\* quill.getText(index, length): the characters of [index, index+length),
\* clamped to the document.
GetText(s, index, length) == Take(Drop(s, index), length)

IsSpace(c) == c = " "

RECURSIVE TrimLeft(_)
TrimLeft(s) == IF s # <<>> /\ IsSpace(s[1]) THEN TrimLeft(Tail(s)) ELSE s
RECURSIVE TrimRight(_)
TrimRight(s) ==
    IF s # <<>> /\ IsSpace(s[Len(s)]) THEN TrimRight(SubSeq(s, 1, Len(s) - 1)) ELSE s
\* String.prototype.trim
Trim(s) == TrimRight(TrimLeft(s))

\* s.startsWith(p)
StartsWith(s, p) == Len(p) <= Len(s) /\ SubSeq(s, 1, Len(p)) = p

\* A JavaScript string used as a condition: absent and "" are falsy.
Truthy(s) == s # Null /\ s # <<>>

\* ------------------------------------------------------------ editor state
VARIABLES
    text,                \* flat text of the Quill document
    tabs,                \* built-in tabs: tab key -> sequence of items (spans)
    customTabs,          \* sequence of custom tabs [id, shortcut, items]
    loadingAI,           \* state loadingAI
    pendingAI,           \* handleCommandSubmit suspended at its await, or NoOp
    nextId,              \* how many spans were created, plus one
    lastOp,              \* history: the handler that ran last, its inputs, and
                         \* whether it called saveDocument
    gone,                \* history: ids of the spans a deletion fully contained
    \* ---- command palette, one submission looked at on its own
    commandInput,        \* state commandInput: the command as typed
    cmdResult,           \* what handleCommandSubmit parsed it to, or Unsubmitted
    aiRequested,         \* history: the submission took the AI branch
    \* ---- action items page and the server behind it
    content,             \* server: the document's content, its text nodes in order
    actionItems,         \* server: the list actionItems
    apc,                 \* where handleAcceptEdit stands, or how it ended
    aitem,               \* the item handleAcceptEdit was called with, or NoItem
    content0,            \* history: the content when handleAcceptEdit was called
    requests,            \* history: the writes handleAcceptEdit has sent
    applied,             \* history: ids of the items whose PUT succeeded
    \* ---- what the editor shows
    rendered,            \* the cards of the tab content as last rendered
    format,              \* Quill: the background of each character of text
    activeHighlightId,   \* state activeHighlightId, or NoId
    hiddenHighlightTabs, \* state hiddenHighlightTabs
    \* ---- saving
    title,               \* state title
    contentState,        \* state content, as set by setContent
    timers,              \* the setTimeout callbacks of the autosave not yet run
    saveTimeoutRef,      \* saveTimeoutRef.current: the id of a timeout, or 0
    persisted,           \* server: the document as the last PUT left it
    \* ---- the server's document routes
    documents,           \* server: the array documents
    puts                 \* PUT handlers suspended at their await

editorVars == <<text, tabs, customTabs, loadingAI, pendingAI, nextId, lastOp, gone>>
paletteVars == <<commandInput, cmdResult, aiRequested>>
applierVars == <<content, actionItems, apc, aitem, content0, requests, applied>>
viewVars == <<rendered, format, activeHighlightId, hiddenHighlightTabs>>
saveVars == <<title, contentState, timers, saveTimeoutRef, persisted>>
serverVars == <<documents, puts>>

TabKeys == {"summary", "definitions", "questions", "edits"}

\* Characters the user types into the document.
DocChars == {"a", " "}
\* Strings one user edit inserts.
InsStrs == {<<>>, <<"a">>, <<" ", "a">>}
\* Replacement texts the edit endpoint answers with.
AIEdits == {<<"b", "b">>}
\* The text stored when the AI request fails
\* ('Error: Failed to process AI command. Please try again.').
ErrorText == <<"E">>

NoOp == [kind |-> "none"]

\* -------------------------------------------------------- registry lookups
RECURSIVE FlatItems(_)
\* customTabs.flatMap(t => t.items)
FlatItems(cts) == IF cts = <<>> THEN <<>> ELSE Head(cts).items \o FlatItems(Tail(cts))

\* [...Object.values(tabs).flat(), ...customTabs.flatMap(t => t.items)]
AllItemsOf(tbs, cts) ==
    tbs["summary"] \o tbs["definitions"] \o tbs["questions"] \o tbs["edits"]
        \o FlatItems(cts)

AllItems == AllItemsOf(tabs, customTabs)

Range(s) == {s[i] : i \in 1..Len(s)}

ItemIds == {it.id : it \in Range(AllItems)}

\* ---------------------------------------------------------- the text surface
Retain(n) == [kind |-> "retain", n |-> n, s |-> <<>>]
Delete(n) == [kind |-> "delete", n |-> n, s |-> <<>>]
Insert(s) == [kind |-> "insert", n |-> 0, s |-> s]

\* The delta Quill reports for one user edit that replaces n characters at
\* offset k by the string ins: retain, then insert, then delete (Quill
\* orders an insertion before a deletion at the same index).
UserDelta(k, ins, n) ==
    (IF k > 0 THEN <<Retain(k)>> ELSE <<>>)
        \o (IF ins # <<>> THEN <<Insert(ins)>> ELSE <<>>)
        \o (IF n > 0 THEN <<Delete(n)>> ELSE <<>>)

RECURSIVE ApplyDelta(_, _)
\* The document text after the delta: retain keeps, insert adds, delete drops.
ApplyDelta(rest, ops) ==
    IF ops = <<>> THEN rest
    ELSE LET op == Head(ops) IN
         CASE op.kind = "retain" -> Take(rest, op.n) \o ApplyDelta(Drop(rest, op.n), Tail(ops))
           [] op.kind = "insert" -> op.s \o ApplyDelta(rest, Tail(ops))
           [] OTHER              -> ApplyDelta(Drop(rest, op.n), Tail(ops))

\* quill.deleteText(index, length)
DeleteText(s, index, length) == Take(s, index) \o Drop(s, index + length)
\* quill.insertText(index, str)
InsertText(s, index, str) == Take(s, index) \o str \o Drop(s, index)

\* ------------------------------------------------- handleTextChange: parse
ParseInit == [index |-> 0, deletionStart |-> -1, deletionLength |-> 0,
              insertionStart |-> -1, insertionLength |-> 0]

\* One iteration of delta.ops.forEach.
ParseOp(st, op) ==
    IF op.kind = "retain" /\ op.n # 0
    THEN [st EXCEPT !.index = st.index + op.n]
    ELSE IF op.kind = "delete" /\ op.n # 0
    THEN [st EXCEPT !.deletionStart = st.index, !.deletionLength = op.n]
    ELSE IF op.kind = "insert" /\ op.s # <<>>
    THEN [st EXCEPT !.insertionStart =
                        IF st.insertionStart = -1 THEN st.index ELSE st.insertionStart,
                    !.insertionLength = st.insertionLength + Len(op.s),
                    !.index = st.index + Len(op.s)]
    ELSE st

RECURSIVE ParseFrom(_, _)
ParseFrom(st, ops) ==
    IF ops = <<>> THEN st ELSE ParseFrom(ParseOp(st, Head(ops)), Tail(ops))

\* {deletionStart, deletionLength, insertionStart, insertionLength} of a delta.
ParseDelta(ops) == ParseFrom(ParseInit, ops)

\* ------------------------------------------ handleTextChange: deletion pass
\* overlaps = !(deletionEnd <= itemStart || deletionStart >= itemEnd)
Overlaps(item, dS, dE) ==
    ~(dE <= item.position \/ dS >= item.position + item.length)

\* entirelyDeleted, for an item that overlaps
EntirelyDeleted(item, dS, dE) ==
    dS <= item.position /\ dE >= item.position + item.length

\* The partial deletion with the position of the item kept in every branch.
PartialDeletion_KeepsStart(item, dS, dE, doc, isEdits) ==
    LET itemStart == item.position
        itemEnd == item.position + item.length
        newStart == Max(itemStart, dS)
        newEnd == Min(itemEnd, dE)
        overlapLength == newEnd - newStart
        newPosition == item.position
        newLength == item.length - overlapLength
        updatedText == Trim(GetText(doc, newPosition, newLength))
    IN [item EXCEPT !.position = newPosition,
                    !.length = newLength,
                    !.highlightedText = updatedText,
                    !.originalText =
                        IF isEdits /\ Truthy(item.originalText)
                        THEN updatedText ELSE item.originalText]

\* The item a partial deletion leaves (newPosition, newLength, updatedText).
\* isEdits: the item's tab key is 'edits' (built-in tabs only test this).
PartialDeletion(item, dS, dE, doc, isEdits) ==
    LET itemStart == item.position
        itemEnd == item.position + item.length
        newStart == Max(itemStart, dS)
        newEnd == Min(itemEnd, dE)
        overlapLength == newEnd - newStart
        newPosition == IF dS <= itemStart THEN dS ELSE item.position
        newLength == item.length - overlapLength
        updatedText == Trim(GetText(doc, newPosition, newLength))
    IN [item EXCEPT !.position = newPosition,
                    !.length = newLength,
                    !.highlightedText = updatedText,
                    !.originalText =
                        IF isEdits /\ Truthy(item.originalText)
                        THEN updatedText ELSE item.originalText]

\* What the deletion pass pushes for an item it keeps.
DeletionItem(item, dS, dL, doc, isEdits) ==
    IF Overlaps(item, dS, dS + dL)
    THEN PartialDeletion(item, dS, dS + dL, doc, isEdits)
    ELSE IF item.position >= dS + dL
    THEN [item EXCEPT !.position = item.position - dL]
    ELSE item

\* updatedItems of one tab after the deletion pass.
DeletionItems(items, dS, dL, doc, isEdits) ==
    LET kept == SelectSeq(items, LAMBDA it :
                    ~(Overlaps(it, dS, dS + dL) /\ EntirelyDeleted(it, dS, dS + dL)))
    IN [i \in 1..Len(kept) |-> DeletionItem(kept[i], dS, dL, doc, isEdits)]

\* highlightsChanged of the deletion pass.
DeletionChanged(tbs, cts, dS, dL) ==
    \E it \in Range(AllItemsOf(tbs, cts)) :
        Overlaps(it, dS, dS + dL) \/ it.position >= dS + dL

DeletionTabs(tbs, dS, dL, doc) ==
    [k \in TabKeys |-> DeletionItems(tbs[k], dS, dL, doc, k = "edits")]

\* Custom tabs test item.originalText alone.
DeletionCustomTabs(cts, dS, dL, doc) ==
    [i \in 1..Len(cts) |->
        [cts[i] EXCEPT !.items = DeletionItems(cts[i].items, dS, dL, doc, TRUE)]]

\* ----------------------------------------- handleTextChange: insertion pass
\* The insertion pass with the growth branch left out: an insertion inside a
\* span is treated as one after its start.
InsertionItem_NoGrowth(item, iS, iL, doc, isEdits) ==
    IF item.position >= iS
    THEN [item EXCEPT !.position = item.position + iL]
    ELSE item

InsertionItem(item, iS, iL, doc, isEdits) ==
    LET itemStart == item.position
        itemEnd == item.position + item.length
    IN IF iS > itemStart /\ iS < itemEnd
       THEN LET newLength == item.length + iL
                updatedText == GetText(doc, item.position, newLength)
            IN [item EXCEPT !.length = newLength,
                            !.highlightedText = updatedText,
                            !.originalText =
                                IF isEdits /\ Truthy(item.originalText)
                                THEN updatedText ELSE item.originalText]
       ELSE IF item.position >= iS
       THEN [item EXCEPT !.position = item.position + iL]
       ELSE item

InsertionItems(items, iS, iL, doc, isEdits) ==
    [i \in 1..Len(items) |-> InsertionItem(items[i], iS, iL, doc, isEdits)]

\* highlightsChanged of the insertion pass.
InsertionChanged(tbs, cts, iS, iL) ==
    \E it \in Range(AllItemsOf(tbs, cts)) :
        (iS > it.position /\ iS < it.position + it.length) \/ it.position >= iS

InsertionTabs(tbs, iS, iL, doc) ==
    [k \in TabKeys |-> InsertionItems(tbs[k], iS, iL, doc, k = "edits")]

InsertionCustomTabs(cts, iS, iL, doc) ==
    [i \in 1..Len(cts) |->
        [cts[i] EXCEPT !.items = InsertionItems(cts[i].items, iS, iL, doc, TRUE)]]

\* ------------------------------------------------ handleTextChange: result
HasDeletion(ev) == ev.deletionStart >= 0 /\ ev.deletionLength > 0
HasInsertion(ev) == ev.insertionStart >= 0 /\ ev.insertionLength > 0

DeletionSets(tbs, cts, ev) ==
    HasDeletion(ev) /\ DeletionChanged(tbs, cts, ev.deletionStart, ev.deletionLength)
InsertionSets(tbs, cts, ev) ==
    HasInsertion(ev) /\ InsertionChanged(tbs, cts, ev.insertionStart, ev.insertionLength)

\* Both passes read the tabs / customTabs of the render the handler was
\* created in, and each calls setTabs / setCustomTabs with its own result:
\* the state after the handler is the one the last call set.
RebasedTabs(tbs, cts, ev, doc) ==
    IF InsertionSets(tbs, cts, ev)
    THEN InsertionTabs(tbs, ev.insertionStart, ev.insertionLength, doc)
    ELSE IF DeletionSets(tbs, cts, ev)
    THEN DeletionTabs(tbs, ev.deletionStart, ev.deletionLength, doc)
    ELSE tbs

RebasedCustomTabs(tbs, cts, ev, doc) ==
    IF InsertionSets(tbs, cts, ev)
    THEN InsertionCustomTabs(cts, ev.insertionStart, ev.insertionLength, doc)
    ELSE IF DeletionSets(tbs, cts, ev)
    THEN DeletionCustomTabs(cts, ev.deletionStart, ev.deletionLength, doc)
    ELSE cts

\* ------------------------------------------- handleCommandSubmit: the parse
\* String.prototype.toLowerCase on the characters commands are typed with.
LowerChar(c) ==
    CASE c = "S" -> "s"
      [] c = "X" -> "x"
      [] c = "A" -> "a"
      [] OTHER   -> c

ToLowerCase(s) == [i \in 1..Len(s) |-> LowerChar(s[i])]

Invalid == [valid |-> FALSE, tabName |-> "", useAI |-> FALSE,
            customPrompt |-> <<>>, isCustomTab |-> FALSE]

Parsed(tabName, useAI, customPrompt, isCustomTab) ==
    [valid |-> TRUE, tabName |-> tabName, useAI |-> useAI,
     customPrompt |-> customPrompt, isCustomTab |-> isCustomTab]

\* The condition of customTabs.find in handleCommandSubmit.
ShortcutMatches(cmdLower, shortcut) ==
    \/ cmdLower = shortcut
    \/ StartsWith(cmdLower, shortcut \o <<"/", "a", "i", " ">>)
    \/ StartsWith(cmdLower, shortcut \o <<"/">>)

\* customTabs.find(...): the first custom tab whose shortcut matches, as a
\* sequence of length 0 or 1.
CustomTabMatch(cmdLower, cts) ==
    LET hits == SelectSeq(cts, LAMBDA t : ShortcutMatches(cmdLower, t.shortcut))
    IN Take(hits, 1)

\* The custom-tab branch: the prompt is cut from the input as typed.
ParseCustom(typed, cmdLower, t) ==
    IF StartsWith(cmdLower, t.shortcut \o <<"/", "a", "i", " ">>)
    THEN Parsed(t.id, TRUE, Trim(Drop(typed, Len(t.shortcut) + 4)), TRUE)
    ELSE IF StartsWith(cmdLower, t.shortcut \o <<"/">>)
    THEN Parsed(t.id, FALSE, Trim(Drop(typed, Len(t.shortcut) + 1)), TRUE)
    ELSE Parsed(t.id, FALSE, <<>>, TRUE)

\* The if / else-if chain of handleCommandSubmit on commandInput.
ParseCommand(input, cts) ==
    LET typed == Trim(input)
        cmd == ToLowerCase(typed)
        match == CustomTabMatch(cmd, cts)
    IN IF StartsWith(cmd, <<"e", "/", "a", "i">>)
       THEN Parsed("edits", TRUE, Trim(Drop(cmd, 4)), FALSE)
       ELSE IF StartsWith(cmd, <<"s", "/", "a", "i">>)
       THEN Parsed("summary", TRUE, Trim(Drop(cmd, 4)), FALSE)
       ELSE IF StartsWith(cmd, <<"s", "/">>)
       THEN Parsed("summary", FALSE, Trim(Drop(cmd, 2)), FALSE)
       ELSE IF StartsWith(cmd, <<"d", "/", "a", "i">>)
       THEN Parsed("definitions", TRUE, Trim(Drop(cmd, 4)), FALSE)
       ELSE IF StartsWith(cmd, <<"d", "/">>)
       THEN Parsed("definitions", FALSE, Trim(Drop(cmd, 2)), FALSE)
       ELSE IF StartsWith(cmd, <<"q", "/", "a", "i">>)
       THEN Parsed("questions", TRUE, Trim(Drop(cmd, 4)), FALSE)
       ELSE IF StartsWith(cmd, <<"q", "/">>)
       THEN Parsed("questions", FALSE, Trim(Drop(cmd, 2)), FALSE)
       ELSE IF cmd = <<"s">> THEN Parsed("summary", FALSE, <<>>, FALSE)
       ELSE IF cmd = <<"d">> THEN Parsed("definitions", FALSE, <<>>, FALSE)
       ELSE IF cmd = <<"q">> THEN Parsed("questions", FALSE, <<>>, FALSE)
       ELSE IF match # <<>> THEN ParseCustom(typed, cmd, match[1])
       ELSE Invalid

\* ------------------------------------------------------- editor: handlers
\* Date.now().toString(): the identifiers given to the spans created, in
\* order, and those given to the custom tabs created.
SpanIds == <<"1">>
CustomTabIds == <<"7">>
IdOf(n) == SpanIds[n]

\* Commands typed into the palette in the editor model.
EditorCmds == { <<"s", "/", "x">>,
                <<"e", "/", "a", "i">>,
                <<"c", "/", "x">>,
                <<"z">> }
\* Shortcuts given to custom tabs.
Shortcuts == { <<"c">>, <<"e">>, <<"s">> }

\* newItem of handleCommandSubmit.
NewItem(id, p, resultText, editedText, selText, selRange) ==
    [id |-> id,
     tabId |-> p.tabName,
     position |-> selRange.index,
     length |-> selRange.length,
     highlightedText |-> selText,
     text |-> resultText,
     prompt |-> IF p.customPrompt # <<>> THEN p.customPrompt ELSE Null,
     isAIGenerated |-> p.useAI,
     editedText |-> IF p.tabName = "edits" THEN editedText ELSE Null,
     originalText |-> IF p.tabName = "edits" THEN selText ELSE Null]

\* updatedCustomTabs of handleCommandSubmit.
AddToCustomTab(cts, tabName, item) ==
    [i \in 1..Len(cts) |->
        IF cts[i].id = tabName
        THEN [cts[i] EXCEPT !.items = Append(cts[i].items, item)]
        ELSE cts[i]]

\* The tail of handleCommandSubmit (from "Add to tab"): tbs and cts are the
\* tabs / customTabs of the render the handler was created in.
AddItem(p, resultText, editedText, selText, selRange, tbs, cts) ==
    LET item == NewItem(IdOf(nextId), p, resultText, editedText, selText, selRange)
    IN /\ nextId' = nextId + 1
       /\ IF p.isCustomTab
          THEN /\ customTabs' = AddToCustomTab(cts, p.tabName, item)
               /\ tabs' = tabs
          ELSE /\ tabs' = [tbs EXCEPT ![p.tabName] = Append(tbs[p.tabName], item)]
               /\ customTabs' = customTabs

\* The selections Cmd/Ctrl+E accepts: a non-empty range of the document whose
\* trimmed text is not empty.  The handler stores the range as selectedRange
\* and the trimmed text as selectedText and opens the palette; the palette
\* keeps the focus until the command is submitted or the palette is closed,
\* so the submit handlers below take the selection as their input.
IsSelection(index, length) ==
    /\ index + length <= Len(text)
    /\ Trim(GetText(text, index, length)) # <<>>

\* The invalid branch returning with the loading flag still set.
SubmitInvalid_StillLoading ==
    /\ ~loadingAI
    /\ \E index \in 0..Len(text), length \in 1..Len(text) : IsSelection(index, length)
    /\ \E cmd \in EditorCmds :
        /\ Trim(cmd) # <<>>
        /\ ~ParseCommand(cmd, customTabs).valid
    /\ lastOp' = [kind |-> "invalidCommand", saved |-> FALSE]
    /\ loadingAI' = TRUE
    /\ UNCHANGED <<gone, text, tabs, customTabs, pendingAI, nextId>>
    /\ UNCHANGED <<paletteVars, applierVars, viewVars, saveVars, serverVars>>

\* handleCommandSubmit on a command that matches nothing.
SubmitInvalid ==
    /\ ~loadingAI
    /\ \E index \in 0..Len(text), length \in 1..Len(text) : IsSelection(index, length)
    /\ \E cmd \in EditorCmds :
        /\ Trim(cmd) # <<>>
        /\ ~ParseCommand(cmd, customTabs).valid
    /\ lastOp' = [kind |-> "invalidCommand", saved |-> FALSE]
    /\ loadingAI' = FALSE
    /\ UNCHANGED <<gone, text, tabs, customTabs, pendingAI, nextId>>
    /\ UNCHANGED <<paletteVars, applierVars, viewVars, saveVars, serverVars>>

\* handleCommandSubmit on a manual command: no await, one step.
SubmitManual ==
    /\ ~loadingAI
    /\ nextId <= Len(SpanIds)
    /\ \E index \in 0..Len(text), length \in 1..Len(text), cmd \in EditorCmds :
        LET p == ParseCommand(cmd, customTabs)
            selectedText == Trim(GetText(text, index, length))
            selectedRange == [index |-> index, length |-> length]
        IN /\ IsSelection(index, length)
           /\ Trim(cmd) # <<>>
           /\ p.valid /\ ~p.useAI
           /\ AddItem(p, selectedText, Null, selectedText, selectedRange, tabs, customTabs)
           /\ lastOp' = [kind |-> "submit", id |-> IdOf(nextId), saved |-> TRUE]
    /\ loadingAI' = FALSE
    /\ UNCHANGED <<gone, text, pendingAI>>
    /\ UNCHANGED <<paletteVars, applierVars, viewVars, saveVars, serverVars>>

\* handleCommandSubmit on an AI command, up to its await.
SubmitAI ==
    /\ ~loadingAI
    /\ nextId <= Len(SpanIds)
    /\ \E index \in 0..Len(text), length \in 1..Len(text), cmd \in EditorCmds :
        LET p == ParseCommand(cmd, customTabs) IN
        /\ IsSelection(index, length)
        /\ Trim(cmd) # <<>>
        /\ p.valid /\ p.useAI
        /\ pendingAI' = [kind |-> "pending", p |-> p,
                         selectedText |-> Trim(GetText(text, index, length)),
                         selectedRange |-> [index |-> index, length |-> length],
                         tabs |-> tabs, customTabs |-> customTabs]
        /\ lastOp' = [kind |-> "submitAI", saved |-> FALSE]
    /\ loadingAI' = TRUE
    /\ UNCHANGED <<gone, text, tabs, customTabs, nextId>>
    /\ UNCHANGED <<paletteVars, applierVars, viewVars, saveVars, serverVars>>

\* handleCommandSubmit resumes with the answer of the AI endpoint.
AIResponse ==
    /\ pendingAI.kind = "pending"
    /\ \E reply \in AIEdits :
        LET c == pendingAI IN
        /\ AddItem(c.p, reply, reply, c.selectedText, c.selectedRange, c.tabs, c.customTabs)
        /\ lastOp' = [kind |-> "aiResponse", id |-> IdOf(nextId), saved |-> TRUE]
    /\ pendingAI' = NoOp
    /\ loadingAI' = FALSE
    /\ UNCHANGED <<gone, text>>
    /\ UNCHANGED <<paletteVars, applierVars, viewVars, saveVars, serverVars>>

\* handleCommandSubmit resumes in the catch of the AI request.
AIFailure ==
    /\ pendingAI.kind = "pending"
    /\ LET c == pendingAI IN
        /\ AddItem(c.p, ErrorText, Null, c.selectedText, c.selectedRange, c.tabs, c.customTabs)
        /\ lastOp' = [kind |-> "aiFailure", id |-> IdOf(nextId), saved |-> TRUE]
    /\ pendingAI' = NoOp
    /\ loadingAI' = FALSE
    /\ UNCHANGED <<gone, text>>
    /\ UNCHANGED <<paletteVars, applierVars, viewVars, saveVars, serverVars>>

\* handleCreateCustomTab with a name and the shortcut typed.
CreateCustomTab ==
    /\ Len(customTabs) < Len(CustomTabIds)
    /\ \E sc \in Shortcuts :
        /\ Trim(sc) # <<>>
        /\ ~\E i \in 1..Len(customTabs) : customTabs[i].shortcut = ToLowerCase(sc)
        /\ customTabs' = Append(customTabs,
               [id |-> CustomTabIds[Len(customTabs) + 1],
                shortcut |-> ToLowerCase(sc), items |-> <<>>])
        /\ lastOp' = [kind |-> "createCustomTab", saved |-> TRUE]
    /\ UNCHANGED <<gone, text, tabs, loadingAI, pendingAI, nextId>>
    /\ UNCHANGED <<commandInput, cmdResult, aiRequested, applierVars, viewVars, saveVars, serverVars>>

\* The ids of the spans whose anchor the deletion range of the event fully
\* contains (dS <= spanStart and dE >= spanEnd).
FullyContained(tbs, cts, ev) ==
    IF HasDeletion(ev)
    THEN {it.id : it \in {x \in Range(AllItemsOf(tbs, cts)) :
              /\ ev.deletionStart <= x.position
              /\ ev.deletionStart + ev.deletionLength >= x.position + x.length}}
    ELSE {}

\* The ids of the spans whose leading edge the deletion range of the event
\* clips from before their start (dS < spanStart < dE < spanEnd).
LeadingClipped(tbs, cts, ev) ==
    IF HasDeletion(ev)
    THEN {it.id : it \in {x \in Range(AllItemsOf(tbs, cts)) :
              /\ ev.deletionStart < x.position
              /\ x.position < ev.deletionStart + ev.deletionLength
              /\ ev.deletionStart + ev.deletionLength < x.position + x.length}}
    ELSE {}

\* A user edit of the document: Quill changes the text, then handleTextChange
\* runs with source 'user'.
TextChange ==
    /\ \E k \in 0..Len(text), ins \in InsStrs, n \in 0..Len(text) :
        LET ops == UserDelta(k, ins, n)
            ev == ParseDelta(ops)
            doc == ApplyDelta(text, ops)
        IN /\ k + n <= Len(text)
           /\ ops # <<>>
           /\ Len(doc) <= MaxDoc
           /\ text' = doc
           /\ tabs' = RebasedTabs(tabs, customTabs, ev, doc)
           /\ customTabs' = RebasedCustomTabs(tabs, customTabs, ev, doc)
           /\ \A it \in Range(AllItemsOf(tabs', customTabs')) :
                  it.position + it.length <= MaxAnchor
           /\ lastOp' = [kind |-> "textChange", ev |-> [ev EXCEPT !.index = 0],
                        saved |-> DeletionSets(tabs, customTabs, ev)
                                      \/ InsertionSets(tabs, customTabs, ev),
                        clipped |-> LeadingClipped(tabs, customTabs, ev)]
           /\ gone' = gone \cup FullyContained(tabs, customTabs, ev)
    /\ UNCHANGED <<loadingAI, pendingAI, nextId>>
    /\ UNCHANGED <<paletteVars, applierVars, viewVars, saveVars, serverVars>>

\* The replacement inserted without the old range being deleted first.
AppliedText_NoDelete(doc, edit) ==
    LET textToInsert == IF Truthy(edit.editedText) THEN edit.editedText ELSE edit.text
    IN InsertText(doc, edit.position, textToInsert)

\* The document text after handleApplyEdit of this edit.
AppliedText(doc, edit) ==
    LET textToInsert == IF Truthy(edit.editedText) THEN edit.editedText ELSE edit.text
    IN InsertText(DeleteText(doc, edit.position, edit.length), edit.position, textToInsert)

\* handleApplyEdit(editId).  The two Quill calls carry source 'api', so
\* handleTextChange returns at once.
ApplyEdit ==
    /\ \E i \in 1..Len(tabs["edits"]) :
        LET editId == tabs["edits"][i].id
            found == SelectSeq(tabs["edits"], LAMBDA e : e.id = editId)
            edit == found[1]
        IN /\ text' = AppliedText(text, edit)
           /\ tabs' = [tabs EXCEPT !["edits"] =
                          SelectSeq(tabs["edits"], LAMBDA e : e.id # editId)]
           /\ lastOp' = [kind |-> "applyEdit", id |-> editId, saved |-> TRUE]
    /\ UNCHANGED <<gone, customTabs, loadingAI, pendingAI, nextId>>
    /\ UNCHANGED <<paletteVars, applierVars, viewVars, saveVars, serverVars>>

\* handleDeleteTabItem(item, tabId) on a card of a built-in tab.
DeleteTabItem ==
    /\ \E tabId \in TabKeys :
        \E i \in 1..Len(tabs[tabId]) :
            LET item == tabs[tabId][i] IN
            /\ ~\E j \in 1..Len(customTabs) : customTabs[j].id = tabId
            /\ tabs' = [tabs EXCEPT ![tabId] =
                           SelectSeq(tabs[tabId], LAMBDA x : x.id # item.id)]
            /\ lastOp' = [kind |-> "deleteItem", id |-> item.id, saved |-> TRUE]
    /\ UNCHANGED <<gone, text, customTabs, loadingAI, pendingAI, nextId>>
    /\ UNCHANGED <<paletteVars, applierVars, viewVars, saveVars, serverVars>>

\* handleDeleteTabItem(item, tabId) on a card of a custom tab.
DeleteCustomTabItem ==
    /\ \E j \in 1..Len(customTabs) :
        \E i \in 1..Len(customTabs[j].items) :
            LET item == customTabs[j].items[i]
                tabId == customTabs[j].id
            IN /\ customTabs' = [t \in 1..Len(customTabs) |->
                      IF customTabs[t].id = tabId
                      THEN [customTabs[t] EXCEPT !.items =
                               SelectSeq(customTabs[t].items, LAMBDA x : x.id # item.id)]
                      ELSE customTabs[t]]
               /\ lastOp' = [kind |-> "deleteItem", id |-> item.id, saved |-> TRUE]
    /\ UNCHANGED <<gone, text, tabs, loadingAI, pendingAI, nextId>>
    /\ UNCHANGED <<paletteVars, applierVars, viewVars, saveVars, serverVars>>

vars == <<editorVars, paletteVars, applierVars, viewVars, saveVars, serverVars>>

\* The palette before a submission, and the action items page at rest.
Unsubmitted == [valid |-> FALSE, tabName |-> "unsubmitted", useAI |-> FALSE,
                customPrompt |-> <<>>, isCustomTab |-> FALSE]
NoItem == [id |-> 0]
PaletteIdle ==
    /\ commandInput = <<>>
    /\ cmdResult = Unsubmitted
    /\ aiRequested = FALSE
ApplierIdle ==
    /\ content = <<>>
    /\ actionItems = <<>>
    /\ apc = "idle"
    /\ aitem = NoItem
    /\ content0 = <<>>
    /\ requests = {}
    /\ applied = {}

\* No span is active; nothing was rendered, saved or scheduled yet.
NoId == "none"
NoWrite == [title |-> "none"]
NoRender == [tab |-> "none", items |-> <<>>]
ViewIdle ==
    /\ rendered = NoRender
    /\ format = <<>>
    /\ activeHighlightId = NoId
    /\ hiddenHighlightTabs = {}
SaveIdle ==
    /\ title = "t0"
    /\ contentState = <<>>
    /\ timers = {}
    /\ saveTimeoutRef = 0
    /\ persisted = NoWrite

\* The document routes are not looked at: no document, no request.
ServerIdle ==
    /\ documents = <<>>
    /\ puts = {}

\* The custom tabs of the document the editor opens (fetchDocument).
InitCustomTabs ==
    { <<[id |-> CustomTabIds[1], shortcut |-> <<"c">>, items |-> <<>>]>> }

\* Documents the editor opens on.
InitDocs == { <<"a", " ", "a">> }

Init ==
    /\ text \in InitDocs
    /\ tabs = [k \in TabKeys |-> <<>>]
    /\ customTabs \in InitCustomTabs
    /\ loadingAI = FALSE
    /\ pendingAI = NoOp
    /\ nextId = 1
    /\ lastOp = NoOp
    /\ gone = {}
    /\ PaletteIdle
    /\ ApplierIdle
    /\ ViewIdle
    /\ SaveIdle
    /\ ServerIdle

Next ==
    \/ SubmitInvalid
    \/ SubmitManual
    \/ SubmitAI
    \/ AIResponse
    \/ AIFailure
    \/ TextChange
    \/ ApplyEdit
    \/ DeleteTabItem
    \/ DeleteCustomTabItem

Spec == Init /\ [][Next]_vars

\* ============================================ one submission of the palette
\* Longest tail a typed command has after its first letter.
MaxRest == 5

\* The first letter of the commands typed, and the characters after it.
CmdLetters == {"s", "d", "q", "e", "c"}
CmdChars == {"/", "a", "i", " ", "X"}

SeqsUpTo(S, n) == UNION {[1..k -> S] : k \in 0..n}

\* What the user types into the palette input.
Commands == {<<l>> \o r : l \in CmdLetters, r \in SeqsUpTo(CmdChars, MaxRest)}

\* handleCommandSubmit with a selection held, up to the choice of the AI
\* branch (if (useAI) { ... axios.post ... }).
CommandSubmit ==
    /\ cmdResult = Unsubmitted
    /\ Trim(commandInput) # <<>>
    /\ LET p == ParseCommand(commandInput, customTabs) IN
        /\ cmdResult' = p
        /\ aiRequested' = (p.valid /\ p.useAI)
    /\ UNCHANGED <<editorVars, commandInput, applierVars, viewVars, saveVars, serverVars>>

InitCmd ==
    /\ text \in InitDocs
    /\ tabs = [k \in TabKeys |-> <<>>]
    /\ customTabs = <<>>
    /\ loadingAI = FALSE
    /\ pendingAI = NoOp
    /\ nextId = 1
    /\ lastOp = NoOp
    /\ gone = {}
    /\ commandInput \in Commands
    /\ cmdResult = Unsubmitted
    /\ aiRequested = FALSE
    /\ ApplierIdle
    /\ ViewIdle
    /\ SaveIdle
    /\ ServerIdle

NextCmd ==
    \/ CreateCustomTab
    \/ CommandSubmit

SpecCmd == InitCmd /\ [][NextCmd]_vars

\* ================================== action items page: handleAcceptEdit
\* Most text nodes a stored document has, and most action items the list has.
MaxNodes == 2
MaxItems == 2

\* The text nodes documents are made of.  The token "T" stands for a marker
\* "(TODO: ...)" that names the task of the action items: a node holds it iff
\* nodeText.includes('TODO') && nodeText.includes(item.description.substring(0, 30)).
\* No node text and no target holds '&', so decodeHtmlEntities changes nothing.
NodeTexts == { <<"a">>, <<"b">>, <<"A", " ", "b">>, <<"a", " ", " ", "b">>,
               <<"a", " ", "a">>, <<"b", " ", "T">>, <<"a", " ", " ", "b", "b">> }
TargetTexts == { <<"a">>, <<"a", " ", "b">>, <<"a", "b">> }
SuggestedEdits == { <<"c">> }

\* text.replace(/\s+/g, ' ')
RECURSIVE CollapseSpaces(_)
CollapseSpaces(s) ==
    IF Len(s) < 2 THEN s
    ELSE IF IsSpace(s[1]) /\ IsSpace(s[2]) THEN CollapseSpaces(Tail(s))
    ELSE <<s[1]>> \o CollapseSpaces(Tail(s))

normalizeText(s) == Trim(CollapseSpaces(s))

\* s.includes(sub)
Includes(s, sub) ==
    \E k \in 0..(Len(s) - Len(sub)) : SubSeq(s, k + 1, k + Len(sub)) = sub

\* doc.body.textContent: the text nodes one after the other.
RECURSIVE BodyText(_)
BodyText(nodes) ==
    IF nodes = <<>> THEN <<>> ELSE nodes[1] \o BodyText(Tail(nodes))

\* The walk entered without the check of the body text.
TargetInBody_NoCheck(nodes, normalizedTarget) == TRUE

\* The check before the walk: the normalized target is in the normalized
\* body text, letter case apart.
TargetInBody(nodes, normalizedTarget) ==
    Includes(ToLowerCase(normalizeText(BodyText(nodes))), ToLowerCase(normalizedTarget))

\* First pass of the walk: the node goes into nodesToReplace.
NodeHoldsTarget(nodeText, normalizedTarget) ==
    Includes(ToLowerCase(normalizeText(nodeText)), ToLowerCase(normalizedTarget))

\* originalText.replace(new RegExp(escaped target, 'gi'), suggestion): every
\* match of the target's characters, letter case apart, from left to right.
RECURSIVE RegexReplaceAll(_, _, _)
RegexReplaceAll(s, pat, rep) ==
    IF pat = <<>> \/ Len(s) < Len(pat) THEN s
    ELSE IF ToLowerCase(Take(s, Len(pat))) = ToLowerCase(pat)
    THEN rep \o RegexReplaceAll(Drop(s, Len(pat)), pat, rep)
    ELSE <<s[1]>> \o RegexReplaceAll(Tail(s), pat, rep)

\* Second pass, one node of nodesToReplace.
ReplaceInNode(originalText, normalizedTarget, normalizedSuggestion) ==
    IF ToLowerCase(normalizeText(originalText)) = ToLowerCase(normalizedTarget)
    THEN normalizedSuggestion
    ELSE RegexReplaceAll(originalText, normalizedTarget, normalizedSuggestion)

ReplaceInNodes(nodes, normalizedTarget, normalizedSuggestion) ==
    [i \in 1..Len(nodes) |->
        IF NodeHoldsTarget(nodes[i], normalizedTarget)
        THEN ReplaceInNode(nodes[i], normalizedTarget, normalizedSuggestion)
        ELSE nodes[i]]

\* The flag replaced after the second pass.
Replaced(nodes, normalizedTarget) ==
    \E i \in 1..Len(nodes) : NodeHoldsTarget(nodes[i], normalizedTarget)

\* nodeText.replace(/\s*[\(\[]TODO:.*?[\)\]]/gi, ''): every marker goes, with
\* the white space before it.
RECURSIVE StripTodo(_)
StripTodo(s) ==
    IF s = <<>> THEN <<>>
    ELSE LET rest == TrimLeft(s) IN
         IF rest # <<>> /\ rest[1] = "T"
         THEN StripTodo(Tail(rest))
         ELSE <<s[1]>> \o StripTodo(Tail(s))

\* The walk that removes the TODO comment of the task.
RemoveTodo(nodes) ==
    [i \in 1..Len(nodes) |->
        IF "T" \in Range(nodes[i]) THEN StripTodo(nodes[i]) ELSE nodes[i]]

\* updatedContent, when the walk replaced something.
UpdatedContent(nodes, item) ==
    RemoveTodo(ReplaceInNodes(nodes, normalizeText(item.targetText),
                              normalizeText(item.suggestedEdit)))

\* The item of the card clicked, with the index the page knows it by.
ItemAt(i) == [id |-> actionItems[i].id,
              targetText |-> actionItems[i].targetText,
              suggestedEdit |-> actionItems[i].suggestedEdit,
              originalIndex |-> i - 1]

\* actionItems.splice(index, 1)
Splice(items, index) == Take(items, index) \o Drop(items, index + 1)

AcceptStarts(i) ==
    /\ apc = "idle"
    /\ aitem' = ItemAt(i)
    /\ content0' = content

\* handleAcceptEdit: the GET of the document fails; the catch alerts.
AcceptEditGetFails ==
    /\ \E i \in 1..Len(actionItems) : AcceptStarts(i)
    /\ apc' = "getFailed"
    /\ requests' = {}
    /\ UNCHANGED <<content, actionItems, applied, editorVars, paletteVars, viewVars, saveVars, serverVars>>

\* handleAcceptEdit: the target is not in the body text; alert and return.
AcceptEditNotFound ==
    /\ \E i \in 1..Len(actionItems) :
        /\ AcceptStarts(i)
        /\ ~TargetInBody(content, normalizeText(actionItems[i].targetText))
    /\ apc' = "notFound"
    /\ requests' = {}
    /\ UNCHANGED <<content, actionItems, applied, editorVars, paletteVars, viewVars, saveVars, serverVars>>

\* handleAcceptEdit: the target is in the body text but in no single node.
\* The fallback calls document.createElement('div') on `document`, which the
\* handler has bound to the fetched document (docResponse.data): a TypeError,
\* caught by the catch, which alerts.
AcceptEditThrows ==
    /\ \E i \in 1..Len(actionItems) :
        /\ AcceptStarts(i)
        /\ TargetInBody(content, normalizeText(actionItems[i].targetText))
        /\ ~Replaced(content, normalizeText(actionItems[i].targetText))
    /\ apc' = "threw"
    /\ requests' = {}
    /\ UNCHANGED <<content, actionItems, applied, editorVars, paletteVars, viewVars, saveVars, serverVars>>

\* handleAcceptEdit up to the answer of its PUT: the server stores the
\* updated content.
AcceptEditPut ==
    /\ \E i \in 1..Len(actionItems) :
        /\ AcceptStarts(i)
        /\ TargetInBody(content, normalizeText(actionItems[i].targetText))
        /\ Replaced(content, normalizeText(actionItems[i].targetText))
        /\ content' = UpdatedContent(content, actionItems[i])
        /\ applied' = applied \cup {actionItems[i].id}
    /\ apc' = "put"
    /\ requests' = {"PUT"}
    /\ UNCHANGED <<actionItems, editorVars, paletteVars, viewVars, saveVars, serverVars>>

\* The same, the PUT failing: the catch alerts.
AcceptEditPutFails ==
    /\ \E i \in 1..Len(actionItems) :
        /\ AcceptStarts(i)
        /\ TargetInBody(content, normalizeText(actionItems[i].targetText))
        /\ Replaced(content, normalizeText(actionItems[i].targetText))
    /\ apc' = "putFailed"
    /\ requests' = {"PUT"}
    /\ UNCHANGED <<content, actionItems, applied, editorVars, paletteVars, viewVars, saveVars, serverVars>>

\* handleAcceptEdit after the PUT: DELETE /api/action-items/:index succeeds,
\* the page alerts success and reloads the list.
AcceptEditDelete ==
    /\ apc = "put"
    /\ aitem.originalIndex < Len(actionItems)
    /\ actionItems' = Splice(actionItems, aitem.originalIndex)
    /\ apc' = "done"
    /\ requests' = requests \cup {"DELETE"}
    /\ UNCHANGED <<content, aitem, content0, applied, editorVars, paletteVars, viewVars, saveVars, serverVars>>

\* The DELETE fails: the catch alerts.
AcceptEditDeleteFails ==
    /\ apc = "put"
    /\ apc' = "deleteFailed"
    /\ requests' = requests \cup {"DELETE"}
    /\ UNCHANGED <<content, actionItems, aitem, content0, applied, editorVars, paletteVars, viewVars, saveVars, serverVars>>

\* handleAcceptEdit has returned.
AcceptEnded == apc \in {"done", "notFound", "getFailed", "threw", "putFailed", "deleteFailed"}

\* The user closes the alert; the page is ready for the next click.
CloseAlert ==
    /\ AcceptEnded
    /\ apc' = "idle"
    /\ aitem' = NoItem
    /\ content0' = <<>>
    /\ requests' = {}
    /\ UNCHANGED <<content, actionItems, applied, editorVars, paletteVars, viewVars, saveVars, serverVars>>

\* The lists of action items the server holds: word edits on the document.
InitActionItems ==
    UNION {
        { [i \in 1..n |-> [id |-> i, targetText |-> t[i], suggestedEdit |-> e]] :
            t \in [1..n -> TargetTexts], e \in SuggestedEdits }
        : n \in 1..MaxItems }

InitContents == UNION {[1..n -> NodeTexts] : n \in 1..MaxNodes}

InitApplier ==
    /\ text = <<>>
    /\ tabs = [k \in TabKeys |-> <<>>]
    /\ customTabs = <<>>
    /\ loadingAI = FALSE
    /\ pendingAI = NoOp
    /\ nextId = 1
    /\ lastOp = NoOp
    /\ gone = {}
    /\ PaletteIdle
    /\ content \in InitContents
    /\ actionItems \in InitActionItems
    /\ apc = "idle"
    /\ aitem = NoItem
    /\ content0 = <<>>
    /\ requests = {}
    /\ applied = {}
    /\ ViewIdle
    /\ SaveIdle
    /\ ServerIdle

NextApplier ==
    \/ AcceptEditGetFails
    \/ AcceptEditNotFound
    \/ AcceptEditThrows
    \/ AcceptEditPut
    \/ AcceptEditPutFails
    \/ AcceptEditDelete
    \/ AcceptEditDeleteFails
    \/ CloseAlert

SpecApplier == InitApplier /\ [][NextApplier]_vars

\* ================================================ tab content: the cards
\* Most cards a tab holds when its content is rendered.
MaxCards == 3

\* Where the spans of the cards start, and when they were created
\* (new Date(item.createdAt), in milliseconds).
CardPositions == 0..1
CardTimes == 1..2

\* The comparator given to sort, with a - b only in the spans' positions.
SortCompare_PositionOnly(a, b) == a.position - b.position

\* The comparator given to sort.
SortCompare(a, b) ==
    IF a.position # b.position
    THEN a.position - b.position
    ELSE a.createdAt - b.createdAt

\* Array.prototype.sort: a stable sort by the comparator.
RECURSIVE InsertSorted(_, _)
InsertSorted(x, sorted) ==
    IF sorted = <<>> THEN <<x>>
    ELSE IF SortCompare(Head(sorted), x) <= 0
    THEN <<Head(sorted)>> \o InsertSorted(x, Tail(sorted))
    ELSE <<x>> \o sorted

RECURSIVE SortItems(_)
SortItems(items) ==
    IF items = <<>> THEN <<>>
    ELSE InsertSorted(items[Len(items)], SortItems(SubSeq(items, 1, Len(items) - 1)))

\* unsortedItems of the tab content: the items of the active tab.
UnsortedItems(activeTab) ==
    LET hits == SelectSeq(customTabs, LAMBDA t : t.id = activeTab)
    IN IF hits # <<>> THEN hits[1].items ELSE tabs[activeTab]

\* The tab content is rendered for the active tab: [...unsortedItems].sort(...).
RenderTabContent ==
    /\ \E activeTab \in TabKeys :
        rendered' = [tab |-> activeTab, items |-> SortItems(UnsortedItems(activeTab))]
    /\ UNCHANGED <<editorVars, paletteVars, applierVars,
                   format, activeHighlightId, hiddenHighlightTabs, saveVars, serverVars>>

\* The lists of spans a tab of the opened document holds, in stored order.
InitCards ==
    UNION { { [i \in 1..n |-> [id |-> i, tabId |-> "summary", position |-> ps[i],
                               length |-> 1, createdAt |-> ts[i]]] :
                ps \in [1..n -> CardPositions], ts \in [1..n -> CardTimes] }
            : n \in 0..MaxCards }

InitSort ==
    /\ text = <<"a", "a">>
    /\ \E cards \in InitCards : tabs = [k \in TabKeys |-> IF k = "summary" THEN cards ELSE <<>>]
    /\ customTabs = <<>>
    /\ loadingAI = FALSE
    /\ pendingAI = NoOp
    /\ nextId = 1
    /\ lastOp = NoOp
    /\ gone = {}
    /\ PaletteIdle
    /\ ApplierIdle
    /\ ViewIdle
    /\ SaveIdle
    /\ ServerIdle

NextSort ==
    \/ RenderTabContent
    \/ DeleteTabItem

SpecSort == InitSort /\ [][NextSort]_vars

\* ================================================ the highlights of the spans
\* The background of a character: none, or the light or dark colour of a tab.
NoBackground == [tab |-> "none", dark |-> FALSE]

\* getTabColor(tabId, isDark): TAB_COLORS_LIGHT / TAB_COLORS_DARK for the
\* built-in tabs; a custom tab takes the pastel pair parseInt(id) % 6, one
\* pair for the one id of CustomTabIds.
GetTabColor(tabId, isDark) ==
    IF tabId \in TabKeys
    THEN [tab |-> tabId, dark |-> isDark]
    ELSE [tab |-> "custom", dark |-> isDark]

\* quill.formatText(index, length, 'background', value) on the backgrounds of
\* the characters: the characters of [index, index + length) that the
\* document holds take the value.
FormatText(fmt, index, length, value) ==
    [i \in 1..Len(fmt) |->
        IF i - 1 >= index /\ i - 1 < index + length THEN value ELSE fmt[i]]

\* Inserted characters carry no background.
Unformatted(n) == [i \in 1..n |-> NoBackground]

\* allItems.forEach of the restore-highlights effect.
RECURSIVE RestoreAll(_, _, _)
RestoreAll(fmt, items, hidden) ==
    IF items = <<>> THEN fmt
    ELSE LET item == Head(items)
             painted == IF item.length # 0 /\ item.tabId \notin hidden
                        THEN FormatText(fmt, item.position, item.length,
                                        GetTabColor(item.tabId, FALSE))
                        ELSE fmt
         IN RestoreAll(painted, Tail(items), hidden)

\* items.forEach of handleToggleTabHighlights.
RECURSIVE FormatAll(_, _, _)
FormatAll(fmt, items, value) ==
    IF items = <<>> THEN fmt
    ELSE FormatAll(FormatText(fmt, Head(items).position, Head(items).length, value),
                   Tail(items), value)

\* The restore-highlights effect, 100 ms after a render.
RestoreHighlights ==
    /\ format' = RestoreAll(format, AllItems, hiddenHighlightTabs)
    /\ lastOp' = [kind |-> "restoreHighlights"]
    /\ UNCHANGED <<gone, text, tabs, customTabs, loadingAI, pendingAI, nextId>>
    /\ UNCHANGED <<paletteVars, applierVars, rendered, activeHighlightId,
                   hiddenHighlightTabs, saveVars, serverVars>>

\* handleScrollToHighlight(item): a click on the card of a span.
ScrollToHighlight ==
    /\ \E n \in 1..Len(AllItems) :
        LET item == AllItems[n]
            prev == SelectSeq(AllItems, LAMBDA x : x.id = activeHighlightId)
            restored == IF activeHighlightId # NoId /\ prev # <<>>
                        THEN FormatText(format, prev[1].position, prev[1].length,
                                        GetTabColor(prev[1].tabId, FALSE))
                        ELSE format
        IN /\ item.position # 0
           /\ IF activeHighlightId = item.id
              THEN /\ format' = FormatText(format, item.position, item.length,
                                           GetTabColor(item.tabId, FALSE))
                   /\ activeHighlightId' = NoId
              ELSE /\ format' = FormatText(restored, item.position, item.length,
                                           GetTabColor(item.tabId, TRUE))
                   /\ activeHighlightId' = item.id
           /\ lastOp' = [kind |-> "scrollToHighlight", id |-> item.id,
                         prev |-> activeHighlightId]
    /\ UNCHANGED <<gone, text, tabs, customTabs, loadingAI, pendingAI, nextId>>
    /\ UNCHANGED <<paletteVars, applierVars, rendered, hiddenHighlightTabs, saveVars, serverVars>>

\* handleClickAway: a mouse press outside the cards while a span is active.
ClickAway ==
    /\ activeHighlightId # NoId
    /\ LET found == SelectSeq(AllItems, LAMBDA x : x.id = activeHighlightId)
       IN format' = IF found # <<>>
                    THEN FormatText(format, found[1].position, found[1].length,
                                    GetTabColor(found[1].tabId, FALSE))
                    ELSE format
    /\ activeHighlightId' = NoId
    /\ lastOp' = [kind |-> "clickAway"]
    /\ UNCHANGED <<gone, text, tabs, customTabs, loadingAI, pendingAI, nextId>>
    /\ UNCHANGED <<paletteVars, applierVars, rendered, hiddenHighlightTabs, saveVars, serverVars>>

\* handleToggleTabHighlights(tabId), the backgrounds left as they are.
ToggleTabHighlights_NoFormat ==
    /\ \E tabId \in TabKeys :
        LET isCurrentlyHidden == tabId \in hiddenHighlightTabs
        IN /\ format' = format
           /\ hiddenHighlightTabs' = IF isCurrentlyHidden
                                     THEN hiddenHighlightTabs \ {tabId}
                                     ELSE hiddenHighlightTabs \cup {tabId}
           /\ lastOp' = [kind |-> "toggleTabHighlights", tabId |-> tabId,
                         hide |-> ~isCurrentlyHidden]
    /\ UNCHANGED <<gone, text, tabs, customTabs, loadingAI, pendingAI, nextId>>
    /\ UNCHANGED <<paletteVars, applierVars, rendered, activeHighlightId, saveVars, serverVars>>

\* handleToggleTabHighlights(tabId)
ToggleTabHighlights ==
    /\ \E tabId \in TabKeys :
        LET isCurrentlyHidden == tabId \in hiddenHighlightTabs
            items == UnsortedItems(tabId)
        IN /\ format' = IF isCurrentlyHidden
                        THEN FormatAll(format, items, GetTabColor(tabId, FALSE))
                        ELSE FormatAll(format, items, NoBackground)
           /\ hiddenHighlightTabs' = IF isCurrentlyHidden
                                     THEN hiddenHighlightTabs \ {tabId}
                                     ELSE hiddenHighlightTabs \cup {tabId}
           /\ lastOp' = [kind |-> "toggleTabHighlights", tabId |-> tabId,
                         hide |-> ~isCurrentlyHidden]
    /\ UNCHANGED <<gone, text, tabs, customTabs, loadingAI, pendingAI, nextId>>
    /\ UNCHANGED <<paletteVars, applierVars, rendered, activeHighlightId, saveVars, serverVars>>

\* handleDeleteTabItem(item, tabId) on a card of a built-in tab, with the
\* background of the span removed and the active span forgotten.
DeleteHighlightedItem ==
    /\ \E tabId \in TabKeys :
        \E i \in 1..Len(tabs[tabId]) :
            LET item == tabs[tabId][i] IN
            /\ ~\E j \in 1..Len(customTabs) : customTabs[j].id = tabId
            /\ format' = IF item.length # 0
                         THEN FormatText(format, item.position, item.length, NoBackground)
                         ELSE format
            /\ activeHighlightId' = IF activeHighlightId = item.id
                                    THEN NoId ELSE activeHighlightId
            /\ tabs' = [tabs EXCEPT ![tabId] =
                           SelectSeq(tabs[tabId], LAMBDA x : x.id # item.id)]
            /\ lastOp' = [kind |-> "deleteItem", id |-> item.id, saved |-> TRUE]
    /\ UNCHANGED <<gone, text, customTabs, loadingAI, pendingAI, nextId>>
    /\ UNCHANGED <<paletteVars, applierVars, rendered, hiddenHighlightTabs, saveVars, serverVars>>

\* handleApplyEdit(editId), with the backgrounds of the characters: those of
\* the deleted range go, the inserted text has none.
ApplyHighlightedEdit ==
    /\ \E i \in 1..Len(tabs["edits"]) :
        LET editId == tabs["edits"][i].id
            found == SelectSeq(tabs["edits"], LAMBDA e : e.id = editId)
            edit == found[1]
            textToInsert == IF Truthy(edit.editedText) THEN edit.editedText ELSE edit.text
        IN /\ text' = AppliedText(text, edit)
           /\ format' = FormatText(
                  InsertText(DeleteText(format, edit.position, edit.length),
                             edit.position, Unformatted(Len(textToInsert))),
                  edit.position, Len(textToInsert), NoBackground)
           /\ tabs' = [tabs EXCEPT !["edits"] =
                          SelectSeq(tabs["edits"], LAMBDA e : e.id # editId)]
           /\ lastOp' = [kind |-> "applyEdit", id |-> editId, saved |-> TRUE]
    /\ UNCHANGED <<gone, customTabs, loadingAI, pendingAI, nextId>>
    /\ UNCHANGED <<paletteVars, applierVars, rendered, activeHighlightId,
                   hiddenHighlightTabs, saveVars, serverVars>>

\* The spans of the opened document: a summary, a definition and an edit
\* whose replacement is longer or shorter than the text it replaces.
RenderSpan(id, tabId, position, length, editedText) ==
    [id |-> id, tabId |-> tabId, position |-> position, length |-> length,
     text |-> <<"x">>, editedText |-> editedText]

RenderEdits == { [length |-> 1, editedText |-> <<"b", "b">>],
                 [length |-> 3, editedText |-> <<"b">>] }

InitRender ==
    /\ text = <<"a", "a", "a", "a", "a">>
    /\ \E e \in RenderEdits :
        tabs = [k \in TabKeys |->
                   CASE k = "summary" -> <<RenderSpan("1", "summary", 1, 1, Null)>>
                     [] k = "definitions" -> <<RenderSpan("2", "definitions", 2, 3, Null)>>
                     [] k = "edits" -> <<RenderSpan("3", "edits", 1, e.length, e.editedText)>>
                     [] OTHER -> <<>>]
    /\ customTabs = <<>>
    /\ loadingAI = FALSE
    /\ pendingAI = NoOp
    /\ nextId = 1
    /\ lastOp = NoOp
    /\ gone = {}
    /\ PaletteIdle
    /\ ApplierIdle
    /\ rendered = NoRender
    /\ format = Unformatted(5)
    /\ activeHighlightId = NoId
    /\ hiddenHighlightTabs = {}
    /\ SaveIdle
    /\ ServerIdle

NextRender ==
    \/ RestoreHighlights
    \/ ScrollToHighlight
    \/ ClickAway
    \/ ToggleTabHighlights
    \/ DeleteHighlightedItem
    \/ ApplyHighlightedEdit

SpecRender == InitRender /\ [][NextRender]_vars

\* ======================================================== saving the document
\* Titles the user gives the document.
Titles == {"t0", "t1"}

\* PUT /api/documents/:id on the stored document.
PutDocument(doc, body) ==
    [title |-> IF body.title # "" THEN body.title ELSE doc.title,
     content |-> body.content,
     tabs |-> body.tabs,
     customTabs |-> body.customTabs]

\* The body of the PUT of saveDocument(newTitle, newContent, newTabs, newCustomTabs).
SaveBody(newTitle, newContent, newTabs, newCustomTabs) ==
    [title |-> newTitle, content |-> newContent,
     tabs |-> newTabs, customTabs |-> newCustomTabs]

\* setTimeout returns an id that no pending timer has.
NextTimerId(ref) == (ref % 2) + 1

\* if (saveTimeoutRef.current) clearTimeout(saveTimeoutRef.current)
ClearTimeout(ts, ref) == {t \in ts : t.id # ref}

\* setTimeout(() => saveDocument(newTitle, newContent), 1000): tabs and
\* customTabs are those of the render the handler was created in, the default
\* values of saveDocument's last two parameters.
SaveTimer(id, newTitle, newContent) ==
    [id |-> id, body |-> SaveBody(newTitle, newContent, tabs, customTabs)]

\* Strings and deletions of one user edit while the saves are followed.
SaveInsStrs == {<<>>, <<"a">>}
SaveDeletes == 0..1

\* handleTitleChange(e), the pending timer left to run.
TitleChange_NoClear ==
    /\ \E newTitle \in Titles \ {title} :
        /\ title' = newTitle
        /\ timers' = timers
               \cup {SaveTimer(NextTimerId(saveTimeoutRef), newTitle, contentState)}
        /\ saveTimeoutRef' = NextTimerId(saveTimeoutRef)
    /\ lastOp' = [kind |-> "titleChange", restarted |-> timers # {}]
    /\ UNCHANGED <<gone, text, tabs, customTabs, loadingAI, pendingAI, nextId>>
    /\ UNCHANGED <<serverVars, paletteVars, applierVars, viewVars, contentState, persisted>>

\* handleTitleChange(e)
TitleChange ==
    /\ \E newTitle \in Titles \ {title} :
        /\ title' = newTitle
        /\ timers' = ClearTimeout(timers, saveTimeoutRef)
               \cup {SaveTimer(NextTimerId(saveTimeoutRef), newTitle, contentState)}
        /\ saveTimeoutRef' = NextTimerId(saveTimeoutRef)
    /\ lastOp' = [kind |-> "titleChange", restarted |-> timers # {}]
    /\ UNCHANGED <<gone, text, tabs, customTabs, loadingAI, pendingAI, nextId>>
    /\ UNCHANGED <<serverVars, paletteVars, applierVars, viewVars, contentState, persisted>>

\* A user edit of the document: Quill changes the text, handleTextChange runs
\* with source 'user' and saves when a pass changed a span, and
\* handleContentChange(value) runs with the new content.
ContentEdit ==
    /\ \E k \in 0..Len(text), ins \in SaveInsStrs, n \in SaveDeletes :
        LET ops == UserDelta(k, ins, n)
            ev == ParseDelta(ops)
            doc == ApplyDelta(text, ops)
            saved == DeletionSets(tabs, customTabs, ev)
                         \/ InsertionSets(tabs, customTabs, ev)
        IN /\ k + n <= Len(text)
           /\ ops # <<>>
           /\ Len(doc) <= MaxDoc
           /\ text' = doc
           /\ tabs' = RebasedTabs(tabs, customTabs, ev, doc)
           /\ customTabs' = RebasedCustomTabs(tabs, customTabs, ev, doc)
           /\ \A it \in Range(AllItemsOf(tabs', customTabs')) :
                  it.position + it.length <= MaxAnchor
           /\ persisted' = IF saved
                           THEN PutDocument(persisted,
                                    SaveBody(title, doc, tabs', customTabs'))
                           ELSE persisted
           /\ contentState' = doc
           /\ timers' = ClearTimeout(timers, saveTimeoutRef)
                  \cup {SaveTimer(NextTimerId(saveTimeoutRef), title, doc)}
           /\ saveTimeoutRef' = NextTimerId(saveTimeoutRef)
           /\ lastOp' = [kind |-> "contentEdit", restarted |-> timers # {}]
    /\ UNCHANGED <<gone, loadingAI, pendingAI, nextId>>
    /\ UNCHANGED <<serverVars, paletteVars, applierVars, viewVars, title>>

\* One second after the last edit: the callback of the pending timer calls
\* saveDocument and the server stores the body.
SaveTimerFires ==
    /\ \E t \in timers :
        /\ timers' = timers \ {t}
        /\ persisted' = PutDocument(persisted, t.body)
    /\ lastOp' = [kind |-> "saveTimer", restarted |-> lastOp.restarted]
    /\ UNCHANGED <<gone, text, tabs, customTabs, loadingAI, pendingAI, nextId>>
    /\ UNCHANGED <<serverVars, paletteVars, applierVars, viewVars, title, contentState, saveTimeoutRef>>

\* The opened document: one manual summary span on the last character, and
\* the stored document it was loaded from.
InitSave ==
    /\ text \in InitDocs
    /\ LET p == ParseCommand(<<"s", "/", "x">>, <<>>)
           item == NewItem(IdOf(1), p, <<"x">>, Null, <<"a">>, [index |-> 2, length |-> 1])
       IN tabs = [k \in TabKeys |-> IF k = "summary" THEN <<item>> ELSE <<>>]
    /\ customTabs = <<>>
    /\ loadingAI = FALSE
    /\ pendingAI = NoOp
    /\ nextId = 2
    /\ lastOp = NoOp
    /\ gone = {}
    /\ PaletteIdle
    /\ ApplierIdle
    /\ ViewIdle
    /\ title = "t0"
    /\ contentState = text
    /\ timers = {}
    /\ saveTimeoutRef = 0
    /\ persisted = SaveBody(title, text, tabs, customTabs)
    /\ ServerIdle

NextSave ==
    \/ TitleChange
    \/ ContentEdit
    \/ SaveTimerFires

SpecSave == InitSave /\ [][NextSave]_vars

\* =============================================== an AI request in flight
\* The opened document holds one manual summary span on its last character;
\* the commands of the session create the span of IdOf(1).
LoadedSpanId == "0"

InitFlight ==
    /\ text \in InitDocs
    /\ LET p == ParseCommand(<<"s", "/", "x">>, <<>>)
           item == NewItem(LoadedSpanId, p, <<"x">>, Null, <<"a">>,
                           [index |-> 2, length |-> 1])
       IN tabs = [k \in TabKeys |-> IF k = "summary" THEN <<item>> ELSE <<>>]
    /\ customTabs = <<>>
    /\ loadingAI = FALSE
    /\ pendingAI = NoOp
    /\ nextId = 1
    /\ lastOp = NoOp
    /\ gone = {}
    /\ PaletteIdle
    /\ ApplierIdle
    /\ ViewIdle
    /\ SaveIdle
    /\ ServerIdle

NextFlight ==
    \/ SubmitAI
    \/ TextChange
    \/ AIResponse
    \/ AIFailure

SpecFlight == InitFlight /\ [][NextFlight]_vars

\* ================================================= properties of the editor
\* The user edit of a text-change event in document coordinates: Quill's
\* delta replaces the EvDeleted characters at offset EvAt by EvInserted ones.
EvAt(ev) == IF HasInsertion(ev) THEN ev.insertionStart ELSE ev.deletionStart
EvDeleted(ev) == IF HasDeletion(ev) THEN ev.deletionLength ELSE 0
EvInserted(ev) == IF HasInsertion(ev) THEN ev.insertionLength ELSE 0

\* The edit lies wholly before / wholly after the anchor of the item.
EditBefore(ev, it) == EvAt(ev) + EvDeleted(ev) <= it.position
EditAfter(ev, it) == EvAt(ev) >= it.position + it.length


TextChanged == lastOp.kind = "textChange"

\* C1  Anchor stability: a user edit that lies strictly outside a span's
\* range leaves the span's highlightedText unchanged and shifts its position
\* by the inserted minus the deleted length when the edit is before the span
\* (and by nothing when it is after it).
C1_AnchorStability ==
    [][TextChanged' =>
        \A it \in Range(AllItems) :
            LET ev == lastOp'.ev
                shift == IF EditBefore(ev, it)
                         THEN EvInserted(ev) - EvDeleted(ev) ELSE 0
            IN (EditBefore(ev, it) \/ EditAfter(ev, it)) =>
                \E x \in Range(AllItems') :
                    /\ x.id = it.id
                    /\ x.highlightedText = it.highlightedText
                    /\ x.length = it.length
                    /\ x.position = it.position + shift]_vars

\* C2  Every span of the registry lies inside the document:
\* position >= 0, length >= 0 and position + length <= text length.
C2_AnchorsInBounds ==
    \A it \in Range(AllItems) :
        /\ it.position >= 0
        /\ it.length >= 0
        /\ it.position + it.length <= Len(text)

\* C3  Full-deletion removal: a span whose anchor the deletion range of a
\* text change fully contained is absent from the registry from then on.
C3_FullDeletionRemoves == gone \cap ItemIds = {}

\* The deletion range of the event overlaps the anchor without containing it.
PartiallyDeleted(ev, it) ==
    /\ HasDeletion(ev)
    /\ Overlaps(it, ev.deletionStart, ev.deletionStart + ev.deletionLength)
    /\ ~EntirelyDeleted(it, ev.deletionStart, ev.deletionStart + ev.deletionLength)

OverlapLength(ev, it) ==
    Min(it.position + it.length, ev.deletionStart + ev.deletionLength)
        - Max(it.position, ev.deletionStart)

\* C4  Partial-deletion shrink: a deletion range that overlaps a span's
\* anchor without containing it keeps the span, reduces its length by the
\* overlap, and leaves highlightedText equal to the document text at the new
\* anchor.
C4_PartialDeletionShrinks ==
    [][TextChanged' =>
        \A it \in Range(AllItems) :
            PartiallyDeleted(lastOp'.ev, it) =>
                \E x \in Range(AllItems') :
                    /\ x.id = it.id
                    /\ x.length = it.length - OverlapLength(lastOp'.ev, it)
                    /\ x.highlightedText = GetText(text', x.position, x.length)]_vars

\* C5  Insertion of iL characters at iS: strictly inside a span
\* (position < iS < position + length) the length grows by iL and the
\* position stays; at or before the span's start the position shifts by iL
\* and the length stays; at or after the span's end the span is unchanged.
C5_InsertionGrowsOrShifts ==
    [][(TextChanged' /\ HasInsertion(lastOp'.ev)) =>
        \A it \in Range(AllItems) :
            LET iS == lastOp'.ev.insertionStart
                iL == lastOp'.ev.insertionLength
            IN /\ (it.position < iS /\ iS < it.position + it.length) =>
                      \E x \in Range(AllItems') :
                          /\ x.id = it.id
                          /\ x.position = it.position
                          /\ x.length = it.length + iL
               /\ iS <= it.position =>
                      \E x \in Range(AllItems') :
                          /\ x.id = it.id
                          /\ x.position = it.position + iL
                          /\ x.length = it.length
               /\ iS >= it.position + it.length =>
                      it \in Range(AllItems')]_vars

\* A state reached by an insertion strictly inside a span: the span that is
\* now iL longer still has the insertion offset strictly inside its old range.
C5_Witness ==
    /\ TextChanged /\ HasInsertion(lastOp.ev)
    /\ \E x \in Range(AllItems) :
        /\ x.position < lastOp.ev.insertionStart
        /\ lastOp.ev.insertionStart < x.position + x.length - lastOp.ev.insertionLength
        /\ x.highlightedText = GetText(text, x.position, x.length)

\* C6  Accepting an edit anchored at [p, p+n) of the document replaces
\* exactly these n characters by the replacement text, leaves the text before
\* p and after p+n as it was, and removes the span from the edits tab.
C6_ApplyEditReplacesRange ==
    [][(lastOp'.kind = "applyEdit") =>
        \A e \in Range(tabs["edits"]) :
            (e.id = lastOp'.id /\ e.position + e.length <= Len(text)) =>
                LET p == e.position
                    n == e.length
                    repl == IF Truthy(e.editedText) THEN e.editedText ELSE e.text
                IN /\ Len(text') = Len(text) - n + Len(repl)
                   /\ \A i \in 1..p : text'[i] = text[i]
                   /\ \A i \in 1..Len(repl) : text'[p + i] = repl[i]
                   /\ \A i \in 1..(Len(text) - p - n) :
                          text'[p + Len(repl) + i] = text[p + n + i]
                   /\ \A x \in Range(tabs'["edits"]) : x.id # e.id]_vars

\* A state reached by accepting an AI edit: the replacement the endpoint
\* answered is in the document and the edits tab holds no span.
C6_Witness ==
    /\ lastOp.kind = "applyEdit"
    /\ tabs["edits"] = <<>>
    /\ \E p \in 0..Len(text) : \E r \in AIEdits : GetText(text, p, Len(r)) = r

\* ===================================== properties of the action items page
\* C7  Applying a suggested edit rewrites the stored content and removes the
\* action item as one logical step: whenever handleAcceptEdit has returned,
\* also after a request failed, the content is rewritten if and only if the
\* item is gone from the list.
C7_EditApplicationAtomic ==
    AcceptEnded =>
        ((content # content0) <=>
            (\A i \in 1..Len(actionItems) : actionItems[i].id # aitem.id))

\* C8  Target-not-found: when the document could be read and the
\* whitespace-normalized target is not a substring, letter case apart, of
\* the normalized flattened text, handleAcceptEdit ends with target-not-found,
\* sends no PUT and no DELETE, and leaves content and action items as they were.
C8_TargetNotFound ==
    [][(/\ apc = "idle"
        /\ apc' \notin {"idle", "getFailed"}
        /\ ~Includes(ToLowerCase(normalizeText(BodyText(content))),
                     ToLowerCase(normalizeText(aitem'.targetText))))
       => (/\ apc' = "notFound"
           /\ requests' = {}
           /\ content' = content
           /\ actionItems' = actionItems
           /\ \E i \in 1..Len(actionItems') : actionItems'[i].id = aitem'.id)]_vars

\* The applier run again on an item whose edit was already written (its
\* DELETE had failed): the content no longer holds the target, and the run
\* ended with target-not-found.
C8_Witness ==
    /\ apc = "notFound"
    /\ aitem.id \in applied
    /\ requests = {}
    /\ content = content0

\* The contents that differ from nodes at one place only: one match of the
\* target in one node replaced by the suggestion, or one node that is the
\* target replaced as a whole.
SingleReplacements(nodes, target, suggestion) ==
    UNION { { [nodes EXCEPT ![i] =
                  Take(nodes[i], k) \o suggestion \o Drop(nodes[i], k + Len(target))] :
              k \in { j \in 0..(Len(nodes[i]) - Len(target)) :
                  ToLowerCase(GetText(nodes[i], j, Len(target))) = ToLowerCase(target) } } :
            i \in 1..Len(nodes) }
    \cup
    { [nodes EXCEPT ![i] = suggestion] :
        i \in { j \in 1..Len(nodes) :
            ToLowerCase(normalizeText(nodes[j])) = ToLowerCase(target) } }

\* C9  A successful edit application changes the content at the one location
\* of the target only: the stored content is the old content with a single
\* occurrence of the target replaced (the markers of the task stripped or
\* not), every other node and every other occurrence being as before.
C9_OnlyTargetLocationChanges ==
    [][(apc = "idle" /\ apc' = "put") =>
        \E r \in SingleReplacements(content, normalizeText(aitem'.targetText),
                                    normalizeText(aitem'.suggestedEdit)) :
            content' = r \/ content' = RemoveTodo(r)]_vars

\* ============================================== properties of the palette
BuiltinLetters == {"s", "d", "q", "e"}
BuiltinTab(l) ==
    CASE l = "s" -> "summary"
      [] l = "d" -> "definitions"
      [] l = "q" -> "questions"
      [] l = "e" -> "edits"

\* The prompt is the text T, white space around it and letter case apart.
SamePrompt(p, t) == ToLowerCase(Trim(p)) = ToLowerCase(Trim(t))

\* C10  Command parsing for the built-in tabs: for L in {s, d, q, e},
\* "L/ai T" resolves to L's tab with useAI and prompt T, and "L/T", T not
\* starting with "ai ", resolves to L's tab without useAI, with prompt T and
\* with no AI request.
C10_BuiltinCommandParsing ==
    cmdResult # Unsubmitted =>
        \A l \in BuiltinLetters :
            LET ai == <<l, "/", "a", "i", " ">>
                manual == <<l, "/">>
            IN /\ StartsWith(commandInput, ai) =>
                    /\ cmdResult.valid
                    /\ cmdResult.tabName = BuiltinTab(l)
                    /\ cmdResult.useAI
                    /\ SamePrompt(cmdResult.customPrompt, Drop(commandInput, 5))
               /\ (StartsWith(commandInput, manual) /\ ~StartsWith(commandInput, ai)) =>
                    /\ cmdResult.valid
                    /\ cmdResult.tabName = BuiltinTab(l)
                    /\ ~cmdResult.useAI
                    /\ SamePrompt(cmdResult.customPrompt, Drop(commandInput, 2))
                    /\ ~aiRequested

\* C11  A bare built-in letter (s, d, q or e; letter case and surrounding
\* white space apart) submitted as the whole command is a default AI
\* invocation of the letter's tab: useAI, an empty prompt, an AI request.
C11_BareLetterInvokesAI ==
    cmdResult # Unsubmitted =>
        \A l \in BuiltinLetters :
            ToLowerCase(Trim(commandInput)) = <<l>> =>
                /\ cmdResult.valid
                /\ cmdResult.tabName = BuiltinTab(l)
                /\ cmdResult.useAI
                /\ cmdResult.customPrompt = <<>>
                /\ aiRequested

\* C12  Invalid command: after the invalid-command outcome no span was added
\* to any tab, no AI request is in flight, no save was issued and the
\* loading flag is cleared.
C12_InvalidCommandHasNoEffect ==
    [][(lastOp'.kind = "invalidCommand") =>
        /\ tabs' = tabs
        /\ customTabs' = customTabs
        /\ pendingAI' = NoOp
        /\ ~lastOp'.saved
        /\ ~loadingAI']_vars

\* An invalid command was submitted while the registry holds a span.
C12_Witness ==
    /\ lastOp.kind = "invalidCommand"
    /\ AllItems # <<>>
    /\ ~loadingAI

\* C13  The shortcuts of the custom tabs are pairwise distinct and none of
\* them is a reserved built-in letter (s, d, q, e).
C13_ShortcutsDistinctAndUnreserved ==
    /\ \A i, j \in 1..Len(customTabs) :
           i # j => customTabs[i].shortcut # customTabs[j].shortcut
    /\ \A i \in 1..Len(customTabs) :
           \A l \in BuiltinLetters : customTabs[i].shortcut # <<l>>

\* C14  The text of a manual comment is stored as typed after the slash,
\* surrounding white space trimmed, letter case kept: for a command
\* "<letter>/<text>" or "<shortcut>/<text>" taken as a manual comment, the
\* prompt given to the new span is <text>.
C14_ManualCommentVerbatim ==
    (/\ cmdResult # Unsubmitted
     /\ cmdResult.valid
     /\ ~cmdResult.useAI
     /\ Len(Trim(commandInput)) >= 2
     /\ Trim(commandInput)[2] = "/")
    => cmdResult.customPrompt = Trim(Drop(Trim(commandInput), 2))

\* ============================================ properties of the tab content
\* C15  The list of a tab's cards is sorted by position ascending and, for
\* equal positions, by createdAt ascending; it holds exactly the spans of the
\* tab; computing it leaves the registry as it is, and computing it again
\* with no mutation in between yields the same sequence.
C15_CardsSorted ==
    [][(rendered' # rendered) =>
        LET out == rendered'.items
            stored == tabs[rendered'.tab]
        IN /\ tabs' = tabs
           /\ customTabs' = customTabs
           /\ Len(out) = Len(stored)
           /\ Range(out) = Range(stored)
           /\ \A i, j \in 1..Len(out) :
                  i < j =>
                      \/ out[i].position < out[j].position
                      \/ /\ out[i].position = out[j].position
                         /\ out[i].createdAt <= out[j].createdAt
           /\ ~(rendered.tab = rendered'.tab /\ Range(rendered.items) = Range(stored))]_vars

\* Cards were rendered in an order that is not the stored one, two of them
\* starting at the same position and told apart by createdAt.
C15_Witness ==
    /\ rendered.tab = "summary"
    /\ rendered.items # tabs["summary"]
    /\ Range(rendered.items) = Range(tabs["summary"])
    /\ \E i \in 1..(Len(rendered.items) - 1) :
           /\ rendered.items[i].position = rendered.items[i + 1].position
           /\ rendered.items[i].createdAt < rendered.items[i + 1].createdAt
           /\ rendered.items[i].id > rendered.items[i + 1].id

\* =========================================== properties of the highlights
\* The positions of the document inside the anchor of a span.
ItemRange(it) ==
    {p \in 0..(Len(format) - 1) : p >= it.position /\ p < it.position + it.length}

\* The positions whose background is the dark colour of some tab.
DarkChars == {p \in 0..(Len(format) - 1) : format[p + 1].dark}

\* The tabs whose dark colour some character carries.
DarkTabs == {format[p + 1].tab : p \in DarkChars}

\* C16  At most one span is in the active state after any sequence of clicks
\* on cards, click-aways, deletions and applied edits: the characters that
\* carry a dark colour carry the dark colour of one tab (each tab of the
\* opened document holds one span), and a click that activates a span leaves
\* no character dark outside the range of that span.
C16_AtMostOneActive ==
    /\ Cardinality(DarkTabs) <= 1
    /\ (lastOp.kind = "scrollToHighlight" /\ activeHighlightId # NoId) =>
           \A it \in Range(AllItems) :
               it.id = activeHighlightId => DarkChars \subseteq ItemRange(it)

\* C17  Toggling a tab hidden removes the background over the range of every
\* span of the tab and leaves the registry unchanged; toggling it visible
\* again puts the light colour of the tab over the range of every span of
\* the tab.
C17_ToggleFormatsOnly ==
    [][(lastOp'.kind = "toggleTabHighlights") =>
        /\ tabs' = tabs
        /\ customTabs' = customTabs
        /\ \A it \in Range(UnsortedItems(lastOp'.tabId)) :
               \A p \in ItemRange(it) :
                   format'[p + 1] = IF lastOp'.hide
                                    THEN NoBackground
                                    ELSE GetTabColor(lastOp'.tabId, FALSE)]_vars

\* A tab that holds a span inside the document was hidden and is shown again.
C17_Witness ==
    /\ lastOp.kind = "toggleTabHighlights"
    /\ ~lastOp.hide
    /\ \E it \in Range(UnsortedItems(lastOp.tabId)) :
           /\ ItemRange(it) # {}
           /\ \A p \in ItemRange(it) : format[p + 1] = GetTabColor(lastOp.tabId, FALSE)

\* The anchor of the span reaches past the end of the document, which is the
\* text and the newline that ends it (quill.getLength()).
OutOfBounds(it) == it.position + it.length > Len(text) + 1

\* C18  When the anchor of a span lies outside the document (position +
\* length > document length), the restore-highlights effect applies no
\* formatting for that span: a character of its range that no other shown
\* span inside the document covers keeps its background; the other spans are
\* rendered and the span stays in the registry.
C18_OutOfBoundsSkipped ==
    [][(lastOp'.kind = "restoreHighlights") =>
        /\ tabs' = tabs
        /\ customTabs' = customTabs
        /\ \A it \in Range(AllItems) :
               OutOfBounds(it) =>
                   \A p \in ItemRange(it) :
                       (~\E other \in Range(AllItems) :
                             /\ ~OutOfBounds(other)
                             /\ other.tabId \notin hiddenHighlightTabs
                             /\ p \in ItemRange(other))
                       => format'[p + 1] = format[p + 1]]_vars

\* ============================================== properties of the autosave
\* C19  At most one debounced save is pending at any time; each edit of the
\* title or of the content cancels the pending one and starts one that
\* carries the title and the content of that edit; when the timer runs, one
\* write is issued and stored with the title and the content of the last edit
\* and none stays pending.
C19_DebouncedAutosave ==
    [][/\ Cardinality(timers') <= 1
       /\ (lastOp'.kind \in {"titleChange", "contentEdit"}) =>
              /\ saveTimeoutRef' # saveTimeoutRef
              /\ \A t \in timers' :
                     /\ t.id = saveTimeoutRef'
                     /\ t.body.title = title'
                     /\ t.body.content = contentState'
              /\ timers' # {}
       /\ (lastOp'.kind = "saveTimer") =>
              /\ persisted'.title = title
              /\ persisted'.content = contentState
              /\ timers' = {}]_vars

\* An edit restarted the pending save, and the debounced write stored the
\* edited title and the edited content.
C19_Witness ==
    /\ lastOp.kind = "saveTimer"
    /\ lastOp.restarted
    /\ persisted.title = "t1"
    /\ persisted.title = title
    /\ persisted.content # <<"a", " ", "a">>
    /\ persisted.content = contentState
    /\ timers = {}

\* C20  Every save writes the registry as it is when the save is issued: once
\* no debounced save is pending, the stored tabs and customTabs are those of
\* the editor.
C20_PersistedRegistryCurrent ==
    timers = {} => (persisted.tabs = tabs /\ persisted.customTabs = customTabs)

\* ====================================== properties of the AI commands in flight
\* C21  When the AI request returns, the span that is created covers the
\* originally selected text at its offset in the current document (or no span
\* is created), never the offset the selection had before the request.
C21_SelectionRevalidated ==
    [][(lastOp'.kind = "aiResponse") =>
        \A it \in Range(AllItemsOf(tabs', customTabs')) :
            it.id = lastOp'.id =>
                Trim(GetText(text', it.position, it.length)) = it.highlightedText]_vars

\* C22  When the AI request of a command fails, either no span is created or
\* the payload of the created span is empty; the spans already in the
\* registry and the document text are unchanged.
C22_FailureLeavesPayloadEmpty ==
    [][(lastOp'.kind = "aiFailure") =>
        /\ text' = text
        /\ \A it \in Range(AllItems) : it \in Range(AllItemsOf(tabs', customTabs'))
        /\ \A it \in Range(AllItemsOf(tabs', customTabs')) :
               it.id = lastOp'.id => (~Truthy(it.text) /\ ~Truthy(it.editedText))]_vars

\* ================================== properties of the two passes of one event
\* C23  For an event that carries both a deletion and an insertion, the
\* registry after the event is the insertion pass applied to the output of the
\* deletion pass, not to the registry before the event.
C23_PassesComposed ==
    [][(TextChanged' /\ HasDeletion(lastOp'.ev) /\ HasInsertion(lastOp'.ev)) =>
        LET ev == lastOp'.ev
        IN /\ tabs' = InsertionTabs(
                          DeletionTabs(tabs, ev.deletionStart, ev.deletionLength, text'),
                          ev.insertionStart, ev.insertionLength, text')
           /\ customTabs' = InsertionCustomTabs(
                          DeletionCustomTabs(customTabs, ev.deletionStart,
                                             ev.deletionLength, text'),
                          ev.insertionStart, ev.insertionLength, text')]_vars

C25_ApplyEditShiftsLaterSpans ==
    [][(lastOp'.kind = "applyEdit") =>
        \A e \in Range(tabs["edits"]) :
            e.id = lastOp'.id =>
                \A it \in Range(AllItems) :
                    (it.id # e.id /\ it.position >= e.position + e.length) =>
                        \E x \in Range(AllItemsOf(tabs', customTabs')) :
                            /\ x.id = it.id
                            /\ x.position = it.position + Len(text') - Len(text)]_vars

\* C26  What a user edit did to the registry while an AI request was in
\* flight is kept when the request ends: apart from the new span, the
\* registry after the span is inserted is the registry as the edits left it.
C26_RebasesSurviveResponse ==
    [][(lastOp'.kind \in {"aiResponse", "aiFailure"}) =>
        {x \in Range(AllItemsOf(tabs', customTabs')) : x.id # lastOp'.id}
            = Range(AllItems)]_vars

\* ======================================= properties of the applier's success
\* C27  When the Edit Applier issued the document write (and deletes the
\* action item) and the replacement differs from the target, the written
\* content differs from the fetched content and contains the replacement.
C27_SuccessMeansReplaced ==
    (/\ apc \in {"put", "done"}
     /\ normalizeText(aitem.suggestedEdit) # normalizeText(aitem.targetText))
    => /\ content # content0
       /\ Includes(BodyText(content), normalizeText(aitem.suggestedEdit))

\* ===================================== properties of hidden and active spans
\* C28  For every tab in the hidden set, no character in the range of a span
\* of that tab carries the background of the tab, after any sequence of
\* toggles, clicks on cards, click-aways and repaints.
C28_HiddenTabsUnformatted ==
    \A tabId \in hiddenHighlightTabs :
        \A it \in Range(UnsortedItems(tabId)) :
            \A p \in ItemRange(it) : format[p + 1].tab # tabId

\* C29  The active-highlight id is null or the id of a span that is in the
\* registry: removing the active span clears it.
C29_ActiveIdInRegistry ==
    activeHighlightId = NoId \/ activeHighlightId \in ItemIds

\* ---------------------------------------------------------------------
\* The server's document routes: PUT and DELETE /api/documents/:id over the
\* in-memory array documents.  Node runs one handler at a time and switches
\* handlers only at an await, so the PUT handler is two steps (up to its
\* await, and from there on) and DELETE is one.

\* How many PUT handlers may be suspended at once.
MaxPuts == 2

\* The length a content must exceed to be analysed.
AnalysisThreshold == 10

ShortContent == <<"h", "i">>
LongContent == <<"h", "e", "l", "l", "o", " ", "w", "o", "r", "l", "d">>

\* What analyzeDocumentContent answers without an AI client or on an error.
FallbackAnalysis == [summaryOf |-> <<>>]

\* What analyzeDocumentContent answers for a title and a content otherwise.
AnalysisOf(t, c) == [summaryOf |-> <<t, c>>]

\* One stored document; the fields the routes never look at are left out.
ServerDoc(id, t, c) ==
    [id |-> id, title |-> t, content |-> c, metadata |-> FallbackAnalysis]

\* req.body of a PUT: title and content, each possibly absent (Null).
PutBodies ==
    {[title |-> <<"t", "1">>, content |-> Null],
     [title |-> Null, content |-> ShortContent],
     [title |-> Null, content |-> LongContent]}

\* documents.findIndex(d => d.id === id), 1-based; 0 stands for -1.
FindIndex(docs, id) ==
    IF \E i \in 1..Len(docs) : docs[i].id = id
    THEN CHOOSE i \in 1..Len(docs) :
             /\ docs[i].id = id
             /\ \A j \in 1..(i - 1) : docs[j].id # id
    ELSE 0

\* documents[docIndex] as res.json sends it: nothing when the index is past
\* the end of the array.
DocAt(docs, i) == IF i \in 1..Len(docs) THEN <<docs[i]>> ELSE <<>>

\* The object the PUT handler stores at documents[docIndex].
UpdatedDoc(old, body) ==
    [old EXCEPT !.title = IF Truthy(body.title) THEN body.title ELSE old.title,
                !.content = IF body.content # Null THEN body.content
                            ELSE old.content]

\* Whether the PUT handler re-analyses the content.
NeedsAnalysis(body) ==
    body.content # Null /\ Len(body.content) > AnalysisThreshold

\* documents[docIndex].metadata = analysis after the await, with the index
\* found before it; a TypeError on a missing element is caught and logged.
WriteMetadata(docs, p, analysis) ==
    [i \in 1..Len(docs) |->
        IF i = p.docIndex THEN [docs[i] EXCEPT !.metadata = analysis]
        ELSE docs[i]]

\* PUT /api/documents/:id up to its await, or to its response when the
\* content is not analysed.
PutRoute ==
    /\ \E id \in {"1", "2", "3"}, body \in PutBodies :
        LET docIndex == FindIndex(documents, id)
        IN IF docIndex = 0
           THEN /\ lastOp' = [kind |-> "putNotFound", id |-> id]
                /\ UNCHANGED <<documents, puts>>
           ELSE LET docs == [documents EXCEPT
                                ![docIndex] = UpdatedDoc(documents[docIndex], body)]
                IN /\ documents' = docs
                   /\ IF NeedsAnalysis(body)
                      THEN /\ Cardinality(puts) < MaxPuts
                           /\ puts' = puts \cup
                                  {[id |-> id, docIndex |-> docIndex,
                                    title |-> docs[docIndex].title,
                                    content |-> docs[docIndex].content]}
                           /\ lastOp' = [kind |-> "putAwait", id |-> id]
                      ELSE /\ puts' = puts
                           /\ lastOp' = [kind |-> "putResponse", id |-> id,
                                         awaited |-> FALSE,
                                         analysis |-> FallbackAnalysis,
                                         response |-> DocAt(docs, docIndex)]
    /\ UNCHANGED <<text, tabs, customTabs, loadingAI, pendingAI, nextId, gone>>
    /\ UNCHANGED <<paletteVars, applierVars, viewVars, saveVars>>

\* The PUT handler from its await on: the analysis arrives, the metadata is
\* written and the response is sent.
PutResumes ==
    /\ \E p \in puts :
        \E analysis \in {FallbackAnalysis, AnalysisOf(p.title, p.content)} :
            /\ puts' = puts \ {p}
            /\ documents' = WriteMetadata(documents, p, analysis)
            /\ lastOp' = [kind |-> "putResponse", id |-> p.id,
                          awaited |-> TRUE, analysis |-> analysis,
                          response |-> DocAt(documents', p.docIndex)]
    /\ UNCHANGED <<text, tabs, customTabs, loadingAI, pendingAI, nextId, gone>>
    /\ UNCHANGED <<paletteVars, applierVars, viewVars, saveVars>>

\* DELETE /api/documents/:id.
DeleteRoute ==
    /\ \E id \in {"1", "2", "3"} :
        LET docIndex == FindIndex(documents, id)
        IN IF docIndex = 0
           THEN /\ lastOp' = [kind |-> "deleteNotFound", id |-> id]
                /\ UNCHANGED documents
           ELSE /\ documents' = [i \in 1..(Len(documents) - 1) |->
                                    IF i < docIndex THEN documents[i]
                                    ELSE documents[i + 1]]
                /\ lastOp' = [kind |-> "delete", id |-> id]
    /\ UNCHANGED puts
    /\ UNCHANGED <<text, tabs, customTabs, loadingAI, pendingAI, nextId, gone>>
    /\ UNCHANGED <<paletteVars, applierVars, viewVars, saveVars>>

\* The server after start-up: three stored documents, no request.
InitServer ==
    /\ text = <<>>
    /\ tabs = [k \in TabKeys |-> <<>>]
    /\ customTabs = <<>>
    /\ loadingAI = FALSE
    /\ pendingAI = NoOp
    /\ nextId = 1
    /\ lastOp = NoOp
    /\ gone = {}
    /\ PaletteIdle
    /\ ApplierIdle
    /\ ViewIdle
    /\ SaveIdle
    /\ documents = <<ServerDoc("1", <<"t", "0">>, ShortContent),
                     ServerDoc("2", <<"t", "0">>, ShortContent),
                     ServerDoc("3", <<"t", "0">>, ShortContent)>>
    /\ puts = {}

NextServer ==
    \/ PutRoute
    \/ PutResumes
    \/ DeleteRoute

SpecServer == InitServer /\ [][NextServer]_vars

\* C30: when a PUT that awaited the content analysis responds and the
\* document with its id is still stored, that document carries the analysis
\* and is the response body, and no other stored document was changed by the
\* handler, whatever DELETE ran during the await.
C30_PutTouchesOwnDocument ==
    [][(lastOp'.kind = "putResponse" /\ lastOp'.awaited
           /\ FindIndex(documents, lastOp'.id) # 0)
        => LET i == FindIndex(documents', lastOp'.id)
           IN /\ i # 0
              /\ documents'[i].metadata = lastOp'.analysis
              /\ lastOp'.response = <<documents'[i]>>
              /\ \A j \in 1..Len(documents') :
                     documents'[j].id # lastOp'.id
                         => documents'[j] = documents[j]]_vars

====
